---- MODULE Spec2Model ----
(***************************************************************************)
(* github-syncer (src/main.py): a polling driver that mirrors the          *)
(* repositories owned by the authenticated GitHub account into ./repos.    *)
(*                                                                         *)
(* Text is modelled as a sequence of chunks (a chunk is an atomic piece of *)
(* text); `pattern in text` is contiguous sub-sequence search and          *)
(* startswith is a prefix test.  stderr is the sequence of its lines       *)
(* (the result of decode + split on newline).  A Python value that is      *)
(* either bytes or str carries its type.                                   *)
(***************************************************************************)
EXTENDS Integers, Sequences, FiniteSets, TLC

\* ---------------------------------------------------------------- bounds
\* repository ids are 1..MaxId
MaxId == 2

\* ------------------------------------------------------ program constants
\* argparse default of --update-delay
DefaultDelay == 60
\* exit status of sys.exit(1)
ExitFailure == 1
\* exit status of argparse's parser.error
ExitUsage == 2

\* ------------------------------------------------------------------ text
FatalMarker == <<"fatal:">>
PatNotRepo  == <<"not a git repository">>
PatExists   == <<"already exists and is not an empty">>
PatAccess   == <<"unable to access">>
PatRemote   == <<"Could not read from remote repository">>
PatLookup   == <<"unable to look up", " ">>
PatEOF      == <<"early EOF">>
PatMerge    == <<"configuration specifies to merge with">>

\* str.startswith
StartsWith(line, prefix) ==
    /\ Len(line) >= Len(prefix)
    /\ SubSeq(line, 1, Len(prefix)) = prefix

\* `pat in line` for two str values
Contains(pat, line) ==
    \E i \in 1..(Len(line) - Len(pat) + 1) :
        SubSeq(line, i, i + Len(pat) - 1) = pat

Bytes(lines) == [type |-> "bytes", lines |-> lines]
Str(line)    == [type |-> "str", lines |-> <<line>>]

\* `pat in msg` where pat is a str: a bytes operand raises TypeError
StrIn(pat, msg) ==
    IF msg.type = "bytes" THEN "TypeError"
    ELSE IF \E i \in 1..Len(msg.lines) : Contains(pat, msg.lines[i])
         THEN "True" ELSE "False"

\* -------------------------------------------------------- GitError classes
GitErrorClasses ==
    {"GitError", "NotRepositoryError", "RepositoryAlreadyExistsError",
     "GitConnectionError"}

Error(cls, msg) == [cls |-> cls, msg |-> msg]

\* index of the first line starting with the fatal marker, 0 when none
\* (variant: the last such line)
FirstFatal_Last(stderr) ==
    IF \E i \in 1..Len(stderr) : StartsWith(stderr[i], FatalMarker)
    THEN CHOOSE i \in 1..Len(stderr) :
            /\ StartsWith(stderr[i], FatalMarker)
            /\ \A j \in (i + 1)..Len(stderr) : ~StartsWith(stderr[j], FatalMarker)
    ELSE 0
FirstFatal(stderr) ==
    IF \E i \in 1..Len(stderr) : StartsWith(stderr[i], FatalMarker)
    THEN CHOOSE i \in 1..Len(stderr) :
            /\ StartsWith(stderr[i], FatalMarker)
            /\ \A j \in 1..(i - 1) : ~StartsWith(stderr[j], FatalMarker)
    ELSE 0

\* GitError.from_error_msg
from_error_msg(stderr) ==
    LET k == FirstFatal(stderr) IN
    IF k = 0 THEN Error("GitError", Bytes(stderr))
    ELSE LET fatal == stderr[k] IN
         IF Contains(PatNotRepo, fatal)
         THEN Error("NotRepositoryError", Str(fatal))
         ELSE IF Contains(PatExists, fatal)
         THEN Error("RepositoryAlreadyExistsError", Str(fatal))
         ELSE IF \/ Contains(PatAccess, fatal)
                 \/ Contains(PatRemote, fatal)
                 \/ Contains(PatLookup, fatal)
                 \/ Contains(PatEOF, fatal)
         THEN Error("GitConnectionError", Str(fatal))
         ELSE Error("GitError", Bytes(stderr))

\* diagnostics a failed git command is observed to print
StderrMergeEmpty ==
    << <<"Your ", "configuration specifies to merge with", " the ref 'refs/heads/master'">>,
       <<"from the remote, but no such ref was fetched.">> >>
StderrExists ==
    << <<"fatal:", " destination path 'x' ", "already exists and is not an empty", " directory.">> >>
StderrAccess ==
    << <<"fatal:", " ", "unable to access", " 'url': Could not resolve host">> >>
StderrNotRepo ==
    << <<"fatal:", " ", "not a git repository", " (or any of the parent directories): .git">> >>
StderrUnrelated ==
    << <<"hint: see git-pull(1)">>,
       <<"fatal:", " refusing to merge unrelated histories">> >>
StderrRemoteMerge ==
    << <<"fatal:", " ", "unable to access", " 'url': ",
         "configuration specifies to merge with", " the ref">> >>

GitStderrs ==
    {StderrMergeEmpty, StderrExists, StderrAccess, StderrNotRepo,
     StderrUnrelated, StderrRemoteMerge}

\* what `git branch` is observed to print: nothing, blank lines, a branch
BranchStdouts == { <<>>, << <<>>, <<" ">> >>, << <<"* ", "master">> >> }

\* results of one subprocess run of git: (returncode, stdout, stderr)
GitRuns ==
    {[rc |-> 0, stdout |-> <<>>, stderr |-> <<>>]}
    \cup {[rc |-> 1, stdout |-> <<>>, stderr |-> s] : s \in GitStderrs}
BranchRuns ==
    {[rc |-> 0, stdout |-> o, stderr |-> <<>>] : o \in BranchStdouts}
    \cup {[rc |-> 128, stdout |-> <<>>, stderr |-> StderrNotRepo]}

\* no subprocess was run
NoRun == [rc |-> 0, stdout |-> <<>>, stderr |-> <<>>]

\* the runs of `git clone` LocalRepository.init can observe on a path in
\* state st, and of `git branch` sync can observe after the pull result run
CloneRuns(st) == IF st = "absent" THEN GitRuns ELSE {NoRun}
BranchRunsAfter(run) == IF run.rc = 0 THEN {NoRun} ELSE BranchRuns

NoError == [cls |-> "None", msg |-> [type |-> "str", lines |-> <<>>]]

\* Git.clone, Git.pull: raise the classified error on a non-zero return code
Git_clone(run) == IF run.rc # 0 THEN from_error_msg(run.stderr) ELSE NoError
Git_pull(run)  == IF run.rc # 0 THEN from_error_msg(run.stderr) ELSE NoError

\* bytes.decode().strip() is non-empty
Whitespace == {" ", "\t"}
StripNonEmpty(line) == \E i \in 1..Len(line) : line[i] \notin Whitespace

\* Git.has_any_branches: "True", "False", or the class of the error raised
has_any_branches(run) ==
    IF run.rc # 0 THEN from_error_msg(run.stderr).cls
    ELSE IF \E i \in 1..Len(run.stdout) : StripNonEmpty(run.stdout[i])
         THEN "True" ELSE "False"

\* ------------------------------------------------------------ data model
Ids    == 1..MaxId
Names  == {"a", "b"}
UserId == "me"
Owners == {UserId, "org"}

\* github.Repository as far as the program reads it
Repositories == [id : Ids, name : Names, owner : Owners]

\* what user.get_repos() can return: ids are unique within one listing, and
\* so are names (a repository of another owner is skipped before its name
\* is read, so a name shared across owners shows nothing more)
Listings ==
    {l \in SUBSET Repositories :
        \A x, y \in l : (x.id = y.id \/ x.name = y.name) => x = y}

NoListing == {[id |-> 0, name |-> "", owner |-> ""]}
NoRepo    == [id |-> 0, name |-> "", owner |-> ""]

\* GithubSync.repos_dir, and os.path.join
ReposDir == "repos"
JoinPath(dir, name) == <<dir, name>>
Paths == {JoinPath(ReposDir, n) : n \in Names}

\* what a path is on disk: nothing, a regular file, a directory without
\* .git, a directory with .git
FsStates == {"absent", "file", "dir", "repo"}

\* os.path.exists / os.path.isdir / Git.is_git_repo
PathExists(st) == st # "absent"
PathIsDir(st)  == st \in {"dir", "repo"}
\* (variant: any directory passes for a working copy)
is_git_repo_AnyDir(st) == st \in {"dir", "repo"}
is_git_repo(st) == st = "repo"

\* LocalRepository.__init__
LocalRepository(repo, path) == [repo |-> repo, path |-> path]

\* LocalRepository.__eq__ (and __hash__): identity is repo.id
\* (variant: the name takes part in the identity)
HandleEq_WithName(x, y) == x.repo.id = y.repo.id /\ x.repo.name = y.repo.name
HandleEq(x, y) == x.repo.id = y.repo.id

\* set.add, set.remove, set.difference over handles
\* (variant: the handle is not added)
SetAdd_Never(S, h) == S
SetAdd(S, h) == IF \E x \in S : HandleEq(x, h) THEN S ELSE S \cup {h}
SetRemove(S, h) == {x \in S : ~HandleEq(x, h)}
\* (variant: difference by value, as without __eq__/__hash__)
SetDifference_ByValue(A, B) == A \ B
SetDifference(A, B) == {x \in A : ~\E y \in B : HandleEq(x, y)}

\* the loop `for repo in deleted_repos: self.local_repos.remove(repo)`
\* (variant: nothing is removed)
RemoveAll_None(S, D) == S
RECURSIVE RemoveAll(_, _)
RemoveAll(S, D) ==
    IF D = {} THEN S
    ELSE LET d == CHOOSE x \in D : TRUE IN RemoveAll(SetRemove(S, d), D \ {d})

\* the owner test of _init_repos and _find_new_repos
\* (variant: no owner test)
IsOwn_Any(repo) == TRUE
IsOwn(repo) == repo.owner = UserId

\* the set comprehension of _find_new_repos
RemoteRepos(listing) ==
    {LocalRepository(r, JoinPath(ReposDir, r.name)) : r \in {x \in listing : IsOwn(x)}}

TrackedIds(S) == {h.repo.id : h \in S}

\* LocalRepository.init on a path in state st; run is the result of the
\* clone when one is made.  raised: class of the error raised, or "None"
LocalRepository_init(st, run) ==
    IF PathExists(st)
    THEN IF ~PathIsDir(st)
         THEN [raised |-> "RuntimeError", clone |-> FALSE]
         ELSE IF ~is_git_repo(st)
              THEN [raised |-> "RuntimeError", clone |-> FALSE]
              ELSE [raised |-> "None", clone |-> FALSE]
    ELSE [raised |-> Git_clone(run).cls, clone |-> TRUE]

\* what `git clone` leaves at the destination: a working copy on success,
\* nothing on failure, unless it reports that the destination exists
\* (created after the os.path.exists test of LocalRepository.init)
CloneLeaves(run) ==
    IF run.rc = 0 THEN {"repo"}
    ELSE IF Git_clone(run).cls = "RepositoryAlreadyExistsError"
         THEN {"file", "dir", "repo"}
         ELSE {"absent"}

\* what `self.local_repos.remove(repo)` does to the directory of the handle
\* on disk: nothing
\* (variant: the directory is removed with the handle)
DropLeaves_Rmtree(st) == "absent"
DropLeaves(st) == st

\* LocalRepository.update: subprocess.run raises OSError (FileNotFoundError,
\* NotADirectoryError) when cwd is not a directory
LocalRepository_update(st, run) ==
    IF ~PathIsDir(st) THEN Error("OSError", NoError.msg) ELSE Git_pull(run)

\* the try/except of GithubSync.sync around repo.update(): the class of the
\* error that leaves the loop body, "None" when there is none
\* (variant: `except GitError: pass`, and nothing else leaves)
SyncUpdate_Swallow(st, run, brun) == "None"
SyncUpdate(st, run, brun) ==
    LET err == LocalRepository_update(st, run) IN
    IF err.cls = "None" THEN "None"
    ELSE IF err.cls \notin GitErrorClasses THEN err.cls
    ELSE LET t == StrIn(PatMerge, err.msg) IN
         IF t = "TypeError" THEN "TypeError"
         ELSE IF t = "False" THEN err.cls
         ELSE LET b == has_any_branches(brun) IN
              IF b = "False" THEN "None"
              ELSE IF b = "True" THEN err.cls
              ELSE b

\* one iteration of the loop of sync runs `git pull` unless
\* subprocess.run fails before
UpdateCalls(st) == IF PathIsDir(st) THEN {"git"} ELSE {}

\* errors of the listing service (PyGithub over requests)
ListingErrors == {"RequestsConnectionError", "TimeoutError", "GithubException"}

\* the except clauses of GithubSync.init
CaughtAtStartup == {"GitConnectionError", "RequestsConnectionError"}
\* the except clauses of the loop of main
\* (variants: without `except TimeoutError`; with `except GitError`)
CaughtInLoop_NoTimeout == {"RequestsConnectionError", "GitConnectionError"}
CaughtInLoop_GitError ==
    {"TimeoutError", "RequestsConnectionError"} \cup GitErrorClasses
CaughtInLoop == {"TimeoutError", "RequestsConnectionError", "GitConnectionError"}

\* the test on the delay in main
\* (variant: off by one)
InvalidDelay_OffByOne(d) == d < -1
InvalidDelay(d) == d < 0

\* command lines and environments main is started with
TokenArgs  == {"omitted", "empty", "path"}
TokenReads == {"ok", "enoent", "ioerror"}
EnvTokens  == {"set", "unset"}
Delays     == {-1, 0}
GitChecks  == {"ok", "nonzero", "absent"}

\* ------------------------------------------------------------------ state
VARIABLES
    pc,             \* position of main
    exit_code,      \* {} while the process lives, {status} once it has exited
    running,        \* main has logged 'synchronization is starting'
    token,          \* "unread", "ok", or why no token could be read
    delay,          \* args.update_delay
    git,            \* result of is_git_installed, "unchecked" before
    repos_dir,      \* ./repos on disk: "absent" or "dir"
    fs,             \* state of each repository path on disk
    local_repos,    \* GithubSync.local_repos
    L,              \* the listing of the reconciliation in progress, or of the
                    \* last one when it ended without error; else NoListing
    listing_left,   \* _init_repos: repositories the iteration has not yielded
    new_repos,      \* _find_new_repos: new handles not yet initialized
    deleted_repos,  \* _find_new_repos: handles to stop tracking
    to_update,      \* sync: handles not yet updated in this cycle
    op,             \* the init/update made by the last step, NoOp otherwise
    exc,            \* the error the last step raised, and the call it left
    calls,          \* external calls made so far: "listing", "git" (clone, pull)
    before,         \* local_repos when the current cycle started
    same,           \* this cycle's listing equals that of the previous
                    \* reconciliation, which ended without error
    recover,        \* history: "failed" since startup or a cycle was cut short
                    \* by an error the driver survives, "recovered" since a
                    \* cycle completed after that and while the listing stays
                    \* the same, "none" otherwise
    cl_stderr,      \* from_error_msg: its argument, the lines of stderr
    cl_result       \* from_error_msg: the error it returned, NoError before

vars == <<pc, exit_code, running, token, delay, git, repos_dir, fs,
          local_repos, L, listing_left, new_repos, deleted_repos, to_update,
          op, exc, calls, before, same, recover, cl_stderr, cl_result>>

\* the argument and result of a call of from_error_msg taken alone
classifier == <<cl_stderr, cl_result>>

NoExc == [cls |-> "None", left |-> ""]

NoOp == [kind |-> "none", by |-> "", repo |-> NoRepo, seen |-> "", clone |-> FALSE,
         raised |-> "None", out |-> "None", merge |-> FALSE, branch |-> ""]

InitOp(by, repo, st, res, out) ==
    [kind |-> "init", by |-> by, repo |-> repo, seen |-> st, clone |-> res.clone,
     raised |-> res.raised, out |-> out, merge |-> FALSE, branch |-> ""]

\* has the failed pull printed the merge-configuration diagnostic, and what
\* `git branch` answers in that repository
UpdateOp(repo, st, run, brun, out) ==
    LET err == LocalRepository_update(st, run) IN
    [kind |-> "update", by |-> "sync", repo |-> repo, seen |-> st, clone |-> FALSE,
     raised |-> err.cls, out |-> out,
     merge |-> /\ err.cls \in GitErrorClasses
               /\ \E i \in 1..Len(run.stderr) : Contains(PatMerge, run.stderr[i]),
     branch |-> IF err.cls \notin GitErrorClasses THEN ""
                ELSE IF brun.rc # 0 THEN "fail"
                ELSE IF has_any_branches(brun) = "True" THEN "some" ELSE "zero"]

Init ==
    /\ pc = "parse_args"
    /\ exit_code = {}
    /\ running = FALSE
    /\ token = "unread"
    /\ delay = DefaultDelay
    /\ git = "unchecked"
    /\ repos_dir \in {"absent", "dir"}
    /\ fs \in [Paths -> FsStates]
    /\ (repos_dir = "absent" => \A p \in Paths : fs[p] = "absent")
    /\ local_repos = {}
    /\ L = NoListing
    /\ listing_left = {}
    /\ new_repos = {}
    /\ deleted_repos = {}
    /\ to_update = {}
    /\ calls = {}
    /\ before = {}
    /\ op = NoOp
    /\ exc = NoExc
    /\ same = FALSE
    /\ recover = "none"
    /\ cl_stderr = <<>>
    /\ cl_result = NoError

\* sys.exit(status), or an exception leaving main (status 1)
Exit(status) ==
    /\ pc' = "exited"
    /\ exit_code' = {status}

\* an error e leaves _init_repos: the except clauses of GithubSync.init,
\* then `except Exception` of main
RaiseAtStartup(e) ==
    /\ exc' = [cls |-> e, left |-> "init"]
    /\ L' = NoListing
    /\ recover' = IF e \in CaughtAtStartup THEN "failed" ELSE "none"
    /\ IF e \in CaughtAtStartup
       THEN pc' = "sleep" /\ running' = TRUE /\ exit_code' = exit_code
       ELSE Exit(ExitFailure) /\ running' = running

\* an error e leaves syncer.sync(): the except clauses of the loop of main,
\* then `except Exception` of __main__
RaiseInLoop(e) ==
    /\ exc' = [cls |-> e, left |-> "sync"]
    /\ L' = NoListing
    /\ recover' = IF e \in CaughtInLoop THEN "failed" ELSE "none"
    /\ IF e \in CaughtInLoop
       THEN pc' = "sleep" /\ exit_code' = exit_code
       ELSE Exit(ExitFailure)

\* main: parse_args and the reading of the token
ReadConfig ==
    /\ UNCHANGED <<classifier, recover>>
    /\ pc = "parse_args"
    /\ \E arg \in TokenArgs, rd \in TokenReads, env \in EnvTokens, d \in Delays :
        LET t == IF arg = "path" THEN rd
                 ELSE IF env = "set" THEN "ok" ELSE "env_missing" IN
        IF arg = "omitted"
        THEN Exit(ExitUsage) /\ UNCHANGED <<token, delay>>
        ELSE /\ token' = t
             /\ delay' = d
             /\ IF t = "ok"
                THEN pc' = "check_delay" /\ exit_code' = exit_code
                ELSE Exit(ExitFailure)
    /\ op' = NoOp /\ exc' = NoExc
    /\ UNCHANGED <<running, git, repos_dir, fs, local_repos, L, listing_left,
                   new_repos, deleted_repos, to_update, calls, before, same>>

\* main: the test of the delay
CheckDelay ==
    /\ UNCHANGED <<classifier, recover>>
    /\ pc = "check_delay"
    /\ IF InvalidDelay(delay)
       THEN Exit(ExitFailure)
       ELSE pc' = "check_git" /\ exit_code' = exit_code
    /\ op' = NoOp /\ exc' = NoExc
    /\ UNCHANGED <<running, token, delay, git, repos_dir, fs, local_repos, L,
                   listing_left, new_repos, deleted_repos, to_update, calls,
                   before, same>>

\* main: is_git_installed; a missing binary makes subprocess.run raise
CheckGit ==
    /\ UNCHANGED <<classifier, recover>>
    /\ pc = "check_git"
    /\ \E g \in GitChecks :
        /\ git' = g
        /\ IF g = "ok"
           THEN pc' = "syncer_init" /\ exit_code' = exit_code /\ exc' = NoExc
           ELSE /\ Exit(ExitFailure)
                /\ exc' = IF g = "absent"
                          THEN [cls |-> "OSError", left |-> "main"] ELSE NoExc
    /\ op' = NoOp
    /\ UNCHANGED <<running, token, delay, repos_dir, fs, local_repos, L,
                   listing_left, new_repos, deleted_repos, to_update, calls,
                   before, same>>

\* GithubSync.__init__ and the mkdir of GithubSync.init
SyncerInit ==
    /\ UNCHANGED <<classifier, recover>>
    /\ pc = "syncer_init"
    /\ \/ /\ repos_dir' = "dir"
          /\ pc' = "init_repos" /\ exit_code' = exit_code /\ exc' = NoExc
       \/ /\ repos_dir = "absent"
          /\ repos_dir' = repos_dir
          /\ Exit(ExitFailure) /\ exc' = [cls |-> "OSError", left |-> "init"]
    /\ local_repos' = {}
    /\ op' = NoOp
    /\ UNCHANGED <<running, token, delay, git, fs, L, listing_left, new_repos,
                   deleted_repos, to_update, calls, before, same>>

\* _init_repos up to the start of the iteration of user.get_repos()
InitReposStart ==
    /\ UNCHANGED classifier
    /\ pc = "init_repos"
    /\ local_repos' = {}
    /\ calls' = calls \cup {"listing"}
    /\ \/ \E e \in ListingErrors :
            /\ RaiseAtStartup(e)
            /\ UNCHANGED listing_left
       \/ \E l \in Listings :
            /\ L' = l
            /\ listing_left' = l
            /\ pc' = "init_iter"
            /\ exc' = NoExc
            /\ UNCHANGED <<exit_code, running, recover>>
    /\ op' = NoOp
    /\ UNCHANGED <<token, delay, git, repos_dir, fs, new_repos, deleted_repos,
                   to_update, before, same>>

\* one iteration of the loop of _init_repos on the repository r
InitReposBody(r) ==
    IF ~IsOwn(r)
    THEN /\ listing_left' = listing_left \ {r}
         /\ op' = NoOp /\ exc' = NoExc
         /\ UNCHANGED <<pc, exit_code, running, fs, local_repos, calls, L,
                        recover>>
    ELSE LET h == LocalRepository(r, JoinPath(ReposDir, r.name)) IN
         \E run \in CloneRuns(fs[h.path]) :
            LET res == LocalRepository_init(fs[h.path], run) IN
            /\ IF res.clone
               THEN /\ \E st \in CloneLeaves(run) : fs' = [fs EXCEPT ![h.path] = st]
                    /\ calls' = calls \cup {"git"}
               ELSE fs' = fs /\ calls' = calls
            /\ IF res.raised \in {"None", "RepositoryAlreadyExistsError"}
               THEN /\ local_repos' = SetAdd(local_repos, h)
                    /\ listing_left' = listing_left \ {r}
                    /\ op' = InitOp("_init_repos", r, fs[h.path], res, "None")
                    /\ exc' = NoExc
                    /\ UNCHANGED <<pc, exit_code, running, L, recover>>
               ELSE /\ RaiseAtStartup(res.raised)
                    /\ op' = InitOp("_init_repos", r, fs[h.path], res, res.raised)
                    /\ listing_left' = {}
                    /\ UNCHANGED local_repos

\* the loop of _init_repos: the iterator yields the next repository, or a
\* request for the next page fails
InitReposStep ==
    /\ UNCHANGED classifier
    /\ pc = "init_iter"
    /\ listing_left # {}
    /\ \/ \E r \in listing_left : InitReposBody(r)
       \/ \E e \in ListingErrors :
            /\ RaiseAtStartup(e)
            /\ listing_left' = {}
            /\ op' = NoOp
            /\ UNCHANGED <<fs, local_repos, calls>>
    /\ UNCHANGED <<token, delay, git, repos_dir, new_repos, deleted_repos,
                   to_update, before, same>>

\* _init_repos returns; main logs 'synchronization is starting'
InitReposDone ==
    /\ UNCHANGED <<classifier, recover>>
    /\ pc = "init_iter"
    /\ listing_left = {}
    /\ pc' = "sleep"
    /\ running' = TRUE
    /\ op' = NoOp /\ exc' = NoExc
    /\ UNCHANGED <<exit_code, token, delay, git, repos_dir, fs, local_repos, L,
                   listing_left, new_repos, deleted_repos, to_update, calls,
                   before, same>>

\* time.sleep(delay) returns
Sleep ==
    /\ UNCHANGED <<classifier, recover>>
    /\ pc = "sleep"
    /\ pc' = "find_new"
    /\ before' = {}
    /\ op' = NoOp /\ exc' = NoExc
    /\ UNCHANGED <<exit_code, running, token, delay, git, repos_dir, fs,
                   local_repos, L, listing_left, new_repos, deleted_repos,
                   to_update, calls, same>>

\* _find_new_repos up to the two set differences
FindNewRepos ==
    /\ UNCHANGED classifier
    /\ pc = "find_new"
    /\ calls' = calls \cup {"listing"}
    /\ \/ \E e \in ListingErrors :
            /\ RaiseInLoop(e)
            /\ UNCHANGED <<new_repos, deleted_repos, before, same>>
       \/ \E l \in Listings :
            LET remote_repos == RemoteRepos(l) IN
            /\ L' = l
            /\ new_repos' = SetDifference(remote_repos, local_repos)
            /\ deleted_repos' = SetDifference(local_repos, remote_repos)
            /\ same' = (l = L)
            /\ recover' = IF recover = "recovered" /\ l # L
                          THEN "none" ELSE recover
            /\ before' = local_repos
            /\ pc' = "init_new"
            /\ exc' = NoExc
            /\ UNCHANGED exit_code
    /\ op' = NoOp
    /\ UNCHANGED <<running, token, delay, git, repos_dir, fs, local_repos,
                   listing_left, to_update>>

\* one iteration of the first loop of _find_new_repos
InitNewStep ==
    /\ UNCHANGED classifier
    /\ pc = "init_new"
    /\ new_repos # {}
    /\ \E h \in new_repos : \E run \in CloneRuns(fs[h.path]) :
        LET res == LocalRepository_init(fs[h.path], run) IN
        /\ IF res.clone
           THEN /\ \E st \in CloneLeaves(run) : fs' = [fs EXCEPT ![h.path] = st]
                /\ calls' = calls \cup {"git"}
           ELSE fs' = fs /\ calls' = calls
        /\ IF res.raised = "None"
           THEN /\ local_repos' = SetAdd(local_repos, h)
                /\ new_repos' = new_repos \ {h}
                /\ op' = InitOp("_find_new_repos", h.repo, fs[h.path], res, "None")
                /\ exc' = NoExc
                /\ UNCHANGED <<pc, exit_code, deleted_repos, same, L, recover>>
           ELSE /\ RaiseInLoop(res.raised)
                /\ op' = InitOp("_find_new_repos", h.repo, fs[h.path], res, res.raised)
                /\ new_repos' = {} /\ deleted_repos' = {} /\ same' = FALSE
                /\ UNCHANGED local_repos
    /\ UNCHANGED <<running, token, delay, git, repos_dir, listing_left,
                   to_update, before>>

\* the second loop of _find_new_repos, and the start of the loop of sync
DropDeleted ==
    /\ UNCHANGED <<classifier, recover>>
    /\ pc = "init_new"
    /\ new_repos = {}
    /\ local_repos' = RemoveAll(local_repos, deleted_repos)
    /\ deleted_repos' = {}
    /\ fs' = [p \in Paths |->
                IF \E d \in deleted_repos : d.path = p
                THEN DropLeaves(fs[p]) ELSE fs[p]]
    /\ to_update' = local_repos'
    /\ pc' = "update"
    /\ op' = NoOp /\ exc' = NoExc
    /\ UNCHANGED <<exit_code, running, token, delay, git, repos_dir, L,
                   listing_left, new_repos, calls, before, same>>

\* one iteration of the loop of sync
UpdateStep ==
    /\ UNCHANGED classifier
    /\ pc = "update"
    /\ to_update # {}
    /\ \E h \in to_update, run \in GitRuns : \E brun \in BranchRunsAfter(run) :
        LET out == SyncUpdate(fs[h.path], run, brun) IN
        /\ op' = UpdateOp(h.repo, fs[h.path], run, brun, out)
        /\ calls' = calls \cup UpdateCalls(fs[h.path])
        /\ IF out = "None"
           THEN /\ to_update' = to_update \ {h}
                /\ exc' = NoExc
                /\ UNCHANGED <<pc, exit_code, same, L, recover>>
           ELSE /\ RaiseInLoop(out)
                /\ to_update' = {} /\ same' = FALSE
    /\ UNCHANGED <<running, token, delay, git, repos_dir, fs, local_repos,
                   listing_left, new_repos, deleted_repos, before>>

\* sync returns
CycleDone ==
    /\ UNCHANGED classifier
    /\ recover' = IF recover = "failed" THEN "recovered" ELSE recover
    /\ pc = "update"
    /\ to_update = {}
    /\ pc' = "sleep"
    /\ same' = FALSE
    /\ op' = NoOp /\ exc' = NoExc
    /\ UNCHANGED <<exit_code, running, token, delay, git, repos_dir, fs,
                   local_repos, L, listing_left, new_repos, deleted_repos,
                   to_update, calls, before>>

Next ==
    \/ ReadConfig
    \/ CheckDelay
    \/ CheckGit
    \/ SyncerInit
    \/ InitReposStart
    \/ InitReposStep
    \/ InitReposDone
    \/ Sleep
    \/ FindNewRepos
    \/ InitNewStep
    \/ DropDeleted
    \/ UpdateStep
    \/ CycleDone

Spec == Init /\ [][Next]_vars

\* time.sleep returns: the driver is never stuck in its sleep
FairSpec == Spec /\ WF_vars(Sleep)

\* ------------------------------------------- from_error_msg taken alone
\* a stderr has at most MaxLines lines
MaxLines == 2

\* pieces of the text git prints; the same words in another letter case
\* are another piece
DiagChunks ==
    {"not a git repository", "already exists and is not an empty",
     "unable to access", "Could not read from remote repository",
     "could not read from remote repository", "unable to look up", " ",
     "early EOF"}

\* what follows the marker on a fatal line: nothing, one piece, two pieces
DiagBodies ==
    {<<>>} \cup {<<c>> : c \in DiagChunks}
           \cup {<<c, d>> : c \in DiagChunks, d \in DiagChunks}

\* lines that start with the marker, and lines that do not (the marker
\* further in the line does not count)
FatalLines == {FatalMarker \o b : b \in DiagBodies}
OtherLines ==
    {<<>>} \cup {<<c>> : c \in DiagChunks}
           \cup {<<" ", "fatal:", "not a git repository">>}

\* result.stderr as from_error_msg splits it
Stderrs ==
    UNION {[1..n -> FatalLines \cup OtherLines] : n \in 0..MaxLines}

ClassifyInit ==
    /\ pc = "classify"
    /\ cl_stderr \in Stderrs
    /\ cl_result = NoError
    /\ exit_code = {} /\ running = FALSE /\ token = "unread"
    /\ delay = DefaultDelay /\ git = "unchecked" /\ repos_dir = "absent"
    /\ fs = [p \in Paths |-> "absent"]
    /\ local_repos = {} /\ L = NoListing /\ listing_left = {}
    /\ new_repos = {} /\ deleted_repos = {} /\ to_update = {}
    /\ op = NoOp /\ exc = NoExc /\ calls = {} /\ before = {} /\ same = FALSE
    /\ recover = "none"

\* GitError.from_error_msg(stderr)
Classify ==
    /\ pc = "classify"
    /\ cl_result' = from_error_msg(cl_stderr)
    /\ pc' = "classified"
    /\ UNCHANGED <<exit_code, running, token, delay, git, repos_dir, fs,
                   local_repos, L, listing_left, new_repos, deleted_repos,
                   to_update, op, exc, calls, before, same, recover, cl_stderr>>

ClassifySpec == ClassifyInit /\ [][Classify]_vars

\* ------------------------------------------------------------- properties
OwnedIds(listing) == {r.id : r \in {x \in listing : x.owner = UserId}}

\* a reconciliation has gone through its init/drop phase without error:
\* the update loop is running, or the cycle (or startup) has ended
Reconciled == pc = "update" \/ (pc = "sleep" /\ L # NoListing)

\* C1: after the init/drop phase of a reconciliation that raised nothing,
\* the tracked set holds exactly one handle per id of the listing that the
\* account owns: nothing of the old set that the listing lacks, every owned
\* id of the listing.
SetDiffCorrect ==
    Reconciled =>
        /\ TrackedIds(local_repos) = OwnedIds(L)
        /\ Cardinality(local_repos) = Cardinality(OwnedIds(L))

\* a cycle has ended in which one handle was dropped and another added
SetDiffWitness ==
    /\ pc = "sleep" /\ running /\ L # NoListing /\ exc = NoExc
    /\ \E h \in before : h.repo.id \notin TrackedIds(local_repos)
    /\ \E h \in local_repos : h.repo.id \notin TrackedIds(before)

\* C2: the tracked set never holds a handle of a repository owned by
\* another account, and no clone is run for one.
OwnerFiltering ==
    /\ \A h \in local_repos : h.repo.owner = UserId
    /\ (op.clone => op.repo.owner = UserId)
    /\ (op.kind # "none" => op.repo.owner = UserId)

\* a clone was made for a listing that has a repository of another owner
OwnerFilteringWitness ==
    /\ op.clone /\ op.out = "None"
    /\ \E r \in L : r.owner # UserId
    /\ local_repos # {}

\* C3: in a cycle whose listing equals that of the previous reconciliation,
\* which ended without error, no step changes the tracked set and no step
\* runs an init or a clone: there is nothing new and nothing gone.
Idempotence ==
    /\ [](same => new_repos = {} /\ deleted_repos = {})
    /\ [][same => /\ local_repos' = local_repos
                  /\ op'.kind # "init"
                  /\ ~op'.clone]_vars

\* the second cycle on an unchanged listing has updated its handles
IdempotenceWitness ==
    /\ same /\ pc = "update" /\ to_update = {}
    /\ op.kind = "update" /\ local_repos # {}

\* C4: a pull that fails with the merge-configuration diagnostic is
\* absorbed when the repository has no branch, and raised when it has one.
BenignAbsorption ==
    /\ (op.kind = "update" /\ op.merge /\ op.branch = "zero"
            => op.out = "None" /\ pc = "update")
    /\ (op.kind = "update" /\ op.merge /\ op.branch = "some"
            => op.out # "None")

\* C5: in a cycle, when the init of a new handle raises AlreadyExists the
\* error is swallowed, the handle is tracked and the cycle goes on.
AlreadyExistsAbsorbed ==
    (op.kind = "init" /\ op.by = "_find_new_repos"
        /\ op.raised = "RepositoryAlreadyExistsError")
    => (op.out = "None" /\ pc = "init_new"
        /\ op.repo.id \in TrackedIds(local_repos))

\* the errors the driver takes for a network or timeout condition
Recoverable == {"GitConnectionError", "RequestsConnectionError", "TimeoutError"}

\* C6: a cycle that fails with a connection or timeout error leaves the
\* process alive and sleeping, and the sleep ends in a new cycle; a cycle
\* that fails with any other error ends the process with status 1, and an
\* exited process takes no further step.
DriverPolicy ==
    /\ [](exc.left = "sync" =>
            IF exc.cls \in Recoverable
            THEN pc = "sleep" /\ exit_code = {}
            ELSE pc = "exited" /\ exit_code = {ExitFailure})
    /\ [][pc # "exited"]_vars
    /\ ((exc.left = "sync" /\ pc = "sleep") ~> pc = "find_new")

\* a cycle has failed with a timeout of the listing service; the driver sleeps
DriverPolicyWitness ==
    /\ exc = [cls |-> "TimeoutError", left |-> "sync"]
    /\ pc = "sleep" /\ running

\* the init or update of the last step, made in a Running cycle, raised a
\* git error
GitFailedInCycle ==
    /\ op.kind \in {"init", "update"}
    /\ op.by \in {"_find_new_repos", "sync"}
    /\ op.raised \in GitErrorClasses

\* C7 as stated: a git error of a Running cycle that is neither a connection
\* failure nor one of the two benign cases aborts the cycle only: the
\* process lives and the driver sleeps.
UnclassifiedKeepsRunning ==
    (/\ GitFailedInCycle
     /\ op.raised # "GitConnectionError"
     /\ ~(op.kind = "init" /\ op.raised = "RepositoryAlreadyExistsError")
     /\ ~(op.kind = "update" /\ op.merge /\ op.branch = "zero"))
    => (pc = "sleep" /\ exit_code = {})

\* C7 amended: when an init or update of a Running cycle fails with a git
\* error and the error that leaves sync is not a connection failure, the
\* rest of the cycle is dropped and the process ends with status 1.
UnclassifiedEndsProcess ==
    (GitFailedInCycle /\ op.out \notin {"None", "GitConnectionError"})
    => /\ pc = "exited" /\ exit_code = {ExitFailure}
       /\ exc = [cls |-> op.out, left |-> "sync"]
       /\ new_repos = {} /\ deleted_repos = {} /\ to_update = {}

\* the clone of a new repository failed in a cycle with an unclassified error
UnclassifiedWitness ==
    /\ GitFailedInCycle /\ op.kind = "init" /\ op.clone
    /\ op.raised = "GitError" /\ op.out = "GitError"
    /\ pc = "exited"

\* C8: a network-class failure of the startup reconciliation does not end
\* the process: main enters Running, and the failing step leaves the
\* tracked set as the earlier inits built it.
StartupAvailability ==
    /\ []((exc.left = "init" /\ exc.cls \in Recoverable)
            => (pc = "sleep" /\ running /\ exit_code = {}))
    /\ [][(exc'.left = "init" /\ exc'.cls \in Recoverable /\ pc = "init_iter")
            => local_repos' = local_repos]_vars

\* C9: at startup, the init of an owned repository whose path exists and is
\* not a working copy ends the process with status 1 before Running, and
\* runs no clone.
FatalInitAtStartup ==
    (op.kind = "init" /\ op.by = "_init_repos" /\ op.seen \in {"file", "dir"})
    => /\ pc = "exited" /\ exit_code = {ExitFailure}
       /\ ~running
       /\ ~op.clone
       /\ exc = [cls |-> "RuntimeError", left |-> "init"]

\* startup met a plain directory where a working copy was expected
FatalInitWitness ==
    /\ op.kind = "init" /\ op.by = "_init_repos" /\ op.seen = "dir"
    /\ op.repo.owner = UserId
    /\ pc = "exited"

\* the token could not be read, the delay is negative, or git is unusable
FatalConfig ==
    \/ token \in {"enoent", "ioerror", "env_missing"}
    \/ (token = "ok" /\ delay < 0)
    \/ git \in {"nonzero", "absent"}

NoDiskDeletion ==
    /\ [][/\ \A p \in Paths : PathExists(fs[p]) => fs'[p] = fs[p]
          /\ (repos_dir = "dir" => repos_dir' = "dir")]_vars
    /\ [][(pc = "init_new" /\ new_repos = {})
            => /\ fs' = fs
               /\ TrackedIds(local_repos')
                    = TrackedIds(local_repos) \ TrackedIds(deleted_repos)]_vars

\* a handle whose directory is a working copy was dropped in this cycle
NoDiskDeletionWitness ==
    /\ pc = "update"
    /\ \E h \in before :
        /\ h.repo.id \notin TrackedIds(local_repos)
        /\ fs[h.path] = "repo"

\* C12: every tracked handle has a path that is absent or a working copy;
\* none has a path that exists and is not a working copy.
TrackedPathsValid ==
    \A h \in local_repos : fs[h.path] \in {"absent", "repo"}

\* C13: the tracked set holds at most one handle per repository id; during a
\* cycle, a handle tracked before the cycle whose id the listing still has
\* under the account, whatever its name there, is neither new nor gone, is
\* not initialized, and stays in the tracked set as it was.
IdentityById ==
    /\ \A x, y \in local_repos : x.repo.id = y.repo.id => x = y
    /\ (pc \in {"init_new", "update"} =>
          \A h \in before :
            h.repo.id \in OwnedIds(L) =>
              /\ h.repo.id \notin TrackedIds(new_repos)
              /\ h.repo.id \notin TrackedIds(deleted_repos)
              /\ h \in local_repos
              /\ (op.kind = "init" => op.repo.id # h.repo.id))

\* a cycle whose listing has a tracked repository under another name has
\* gone through its init/drop phase
IdentityByIdWitness ==
    /\ pc = "update"
    /\ \E h \in before : \E r \in L :
        /\ r.owner = UserId /\ r.id = h.repo.id /\ r.name # h.repo.name
        /\ h \in local_repos

\* the indexes of the lines of stderr that start with the fatal marker
FatalAt(stderr) == {i \in 1..Len(stderr) : StartsWith(stderr[i], FatalMarker)}

\* the kind the claim C14 gives to a fatal line, with the substrings as the
\* claim writes them
StatedKind(line) ==
    IF Contains(<<"not a git repository">>, line) THEN "NotRepositoryError"
    ELSE IF Contains(<<"already exists and is not an empty">>, line)
    THEN "RepositoryAlreadyExistsError"
    ELSE IF \/ Contains(<<"unable to access">>, line)
            \/ Contains(<<"could not read from remote repository">>, line)
            \/ Contains(<<"unable to look up">>, line)
            \/ Contains(<<"early EOF">>, line)
    THEN "GitConnectionError"
    ELSE "GitError"

\* C14 as stated: the kind returned is the kind of the first fatal line by
\* the rules "not a git repository", "already exists and is not an empty",
\* then any of "unable to access", "could not read from remote repository",
\* "unable to look up", "early EOF"; Generic otherwise and without a fatal
\* line.
ClassifierAsStated ==
    pc = "classified" =>
        cl_result.cls =
            IF FatalAt(cl_stderr) = {} THEN "GitError"
            ELSE StatedKind(cl_stderr[CHOOSE i \in FatalAt(cl_stderr) :
                                        \A j \in FatalAt(cl_stderr) : i <= j])

\* C14 amended: the same rules with the substrings the classifier tests:
\* "Could not read from remote repository" with a capital C, and
\* "unable to look up " with the space that follows.  The result is always
\* one of the four kinds (nothing is raised), and it is the result for the
\* stderr cut after its first fatal line.
ClassifierPrecedence ==
    pc = "classified" =>
        LET F == FatalAt(cl_stderr) IN
        /\ cl_result.cls \in GitErrorClasses
        /\ (F = {} => cl_result.cls = "GitError")
        /\ (F # {} =>
              LET k == CHOOSE i \in F : \A j \in F : i <= j
                  line == cl_stderr[k]
                  conn == \/ Contains(<<"unable to access">>, line)
                          \/ Contains(<<"Could not read from remote repository">>, line)
                          \/ Contains(<<"unable to look up", " ">>, line)
                          \/ Contains(<<"early EOF">>, line)
              IN
              /\ cl_result.cls =
                    IF Contains(<<"not a git repository">>, line)
                    THEN "NotRepositoryError"
                    ELSE IF Contains(<<"already exists and is not an empty">>, line)
                    THEN "RepositoryAlreadyExistsError"
                    ELSE IF conn THEN "GitConnectionError"
                    ELSE "GitError"
              /\ cl_result.cls = from_error_msg(SubSeq(cl_stderr, 1, k)).cls)

\* a first fatal line with two of the substrings, followed by a fatal line
\* of another kind, was classified by the first rule
ClassifierWitness ==
    /\ pc = "classified"
    /\ Len(cl_stderr) = 2
    /\ cl_stderr[1] = FatalMarker \o <<"already exists and is not an empty",
                                       "not a git repository">>
    /\ cl_stderr[2] = FatalMarker \o <<"unable to access">>
    /\ cl_result.cls = "NotRepositoryError"

\* C15: a Generic error returned for a stderr with a fatal line carries that
\* line, as text; returned for a stderr without a fatal line it carries the
\* raw stderr, as bytes.
GenericPayload ==
    (pc = "classified" /\ cl_result.cls = "GitError") =>
        LET F == FatalAt(cl_stderr) IN
        IF F = {} THEN cl_result.msg = Bytes(cl_stderr)
        ELSE cl_result.msg = Str(cl_stderr[CHOOSE i \in F : \A j \in F : i <= j])

\* C16: a cycle goes listing fetch and set diff, init of the new handles,
\* drop of the gone handles, refreshes, in that order.  The refresh loop
\* starts when nothing is left to init or drop, on exactly the resulting
\* tracked set; inits and changes of the tracked set happen only before it;
\* each refresh is of a handle that is tracked, that the listing of this
\* cycle has, and that was not refreshed yet in this cycle; and a cycle
\* ends without error only when no handle is left to refresh.
CycleOrdering ==
    /\ [](pc = "update" =>
            /\ new_repos = {} /\ deleted_repos = {}
            /\ to_update \subseteq local_repos
            /\ TrackedIds(local_repos) = OwnedIds(L))
    /\ [](pc \in {"find_new", "init_new"} => to_update = {})
    /\ [][/\ (pc = "sleep" => pc' = "find_new")
          /\ (pc = "find_new" => pc' \in {"init_new", "sleep", "exited"})
          /\ (pc = "init_new" => pc' \in {"init_new", "update", "sleep", "exited"})
          /\ (pc = "update" => pc' \in {"update", "sleep", "exited"})]_vars
    /\ [][(pc = "init_new" /\ pc' = "update") => to_update' = local_repos']_vars
    /\ [][op'.kind = "init" => pc \in {"init_iter", "init_new"}]_vars
    /\ [][local_repos' # local_repos => pc \in {"init_iter", "init_new"}]_vars
    /\ [][op'.kind = "update" =>
            /\ pc = "update"
            /\ local_repos' = local_repos
            /\ op'.repo.id \in OwnedIds(L)
            /\ \E h \in to_update :
                /\ h.repo = op'.repo
                /\ h \in local_repos
                /\ (op'.out = "None" => to_update' = to_update \ {h})]_vars
    /\ [][(pc = "update" /\ pc' = "sleep" /\ exc' = NoExc) => to_update = {}]_vars

\* a cycle that dropped one handle and added another has refreshed every
\* handle it tracks
CycleOrderingWitness ==
    /\ pc = "update" /\ to_update = {}
    /\ op.kind = "update" /\ op.out = "None"
    /\ \E h \in before : h.repo.id \notin TrackedIds(local_repos)
    /\ \E h \in local_repos : h.repo.id \notin TrackedIds(before)

FailFastInit ==
    /\ []((op.kind = "init" /\ op.by = "_find_new_repos"
                /\ op.seen \in {"file", "dir"})
            => op.raised = "RuntimeError")
    /\ []((op.kind = "init" /\ op.by = "_find_new_repos"
                /\ op.raised \notin {"None", "RepositoryAlreadyExistsError"})
            => /\ op.out = op.raised
               /\ exc = [cls |-> op.raised, left |-> "sync"]
               /\ pc \in {"sleep", "exited"}
               /\ new_repos = {} /\ deleted_repos = {} /\ to_update = {}
               /\ op.repo.id \notin TrackedIds(local_repos)
               /\ before \subseteq local_repos
               /\ \A h \in local_repos \ before : fs[h.path] = "repo")
    /\ [][(op'.kind = "init" /\ op'.by = "_find_new_repos"
                /\ op'.raised \notin {"None", "RepositoryAlreadyExistsError"})
            => local_repos' = local_repos]_vars
    /\ [][(pc = "init_new" /\ pc' # "update")
            => before \subseteq local_repos']_vars

\* the first new handle of a cycle was cloned and tracked, the clone of the
\* second failed on a connection error, and the driver sleeps
FailFastInitWitness ==
    /\ op.kind = "init" /\ op.by = "_find_new_repos" /\ op.clone
    /\ op.raised = "GitConnectionError"
    /\ pc = "sleep"
    /\ \E h \in local_repos : h \notin before

\* C19: no two distinct tracked handles have the same local path (the names
\* of every listing are pairwise distinct); stated for the tracked set as
\* the init/drop phase of a reconciliation leaves it.
DistinctPaths ==
    Reconciled => \A x, y \in local_repos : x # y => x.path # y.path

\* C20: the cycle that completes after startup or a cycle was cut short by
\* an error the driver survives ends with the tracked set equal to the
\* owner-filtered listing, one handle per id; and in every later cycle on
\* the same listing, as long as none fails, the tracked set stays that set
\* and nothing is new or gone.
Convergence ==
    /\ [][(recover = "failed" /\ pc = "update" /\ pc' = "sleep" /\ exc' = NoExc)
            => /\ recover' = "recovered"
               /\ TrackedIds(local_repos') = OwnedIds(L')
               /\ Cardinality(local_repos') = Cardinality(OwnedIds(L'))]_vars
    /\ [](recover = "recovered" =>
            /\ TrackedIds(local_repos) = OwnedIds(L)
            /\ Cardinality(local_repos) = Cardinality(OwnedIds(L))
            /\ new_repos = {} /\ deleted_repos = {})
    /\ [][(recover = "recovered" /\ recover' = "recovered")
            => local_repos' = local_repos]_vars
    /\ [][(recover = "recovered" /\ recover' # "recovered")
            => (L' # L \/ exc' # NoExc)]_vars

\* after a cut-short startup or cycle a cycle has completed, and a later
\* cycle on the same listing is refreshing a tracked handle
ConvergenceWitness ==
    /\ recover = "recovered" /\ same
    /\ pc = "update" /\ op.kind = "update" /\ op.out = "None"
    /\ local_repos # {}

====
